---- MODULE Spec2Model ----
(***************************************************************************)
(* border-shimmer: startup (configuration resolution, colour parsing,      *)
(* inactive-track derivation) and the animation loop that dispatches one   *)
(* `borders` command per frame.                                            *)
(*                                                                         *)
(* Strings are sequences of one-character strings.  float64 values that    *)
(* occur in interpolateColor are exact fixed-point numbers: four limbs of  *)
(* LimbBits bits, least significant first, scaled by 2^-(3*LimbBits); the  *)
(* fourth limb is the integer part.  Every float64 operation is the exact  *)
(* operation followed by IEEE-754 round-to-nearest-even to 53 significant  *)
(* bits.                                                                   *)
(***************************************************************************)
EXTENDS Integers, Sequences, FiniteSets, TLC

\* ------------------------------------------------------------------------
\* float64 arithmetic (IEEE-754 binary64, round to nearest even)
\* ------------------------------------------------------------------------

\* Op applied to the value of x.  (A LET definition is re-evaluated at each
\* of its uses when an action is evaluated for ENABLED; a bound variable
\* holds a value.)
WithValue(x, Op(_)) == CHOOSE r \in { Op(v) : v \in { x } } : TRUE

LimbBits == 20

MantissaBits == 53

Base == 2 ^ LimbBits

\* carry (or borrow) propagation over the four limbs
NormLimbs(v) ==
    LET c1 == v[1] \div Base
        l2 == v[2] + c1
        c2 == l2 \div Base
        l3 == v[3] + c2
        c3 == l3 \div Base
    IN  << v[1] % Base, l2 % Base, l3 % Base, v[4] + c3 >>

Norm(x) == WithValue(x, NormLimbs)

FxZero == << 0, 0, 0, 0 >>

FxOne == << 0, 0, 0, 1 >>

FxAdd(a, b) == Norm([k \in 1..4 |-> a[k] + b[k]])

FxSub(a, b) == Norm([k \in 1..4 |-> a[k] - b[k]])

FxMul(c, a) == Norm([k \in 1..4 |-> c * a[k]])

\* number of significant bits of a limb
BitLen(x) == IF x = 0 THEN 0 ELSE CHOOSE b \in 1..LimbBits : 2 ^ (b - 1) <= x /\ x < 2 ^ b

\* position of the most significant set bit of a non-zero value
TopBit(a) ==
    LET h == CHOOSE k \in 1..4 : a[k] # 0 /\ \A j \in (k + 1)..4 : a[j] = 0
    IN  LimbBits * (h - 1) + BitLen(a[h]) - 1

\* a with its d lowest bits rounded away, to nearest, ties to even
RoundBits(a, d, sticky) ==
    LET unit == 2 ^ d
        rem  == a[1] % unit
        half == unit \div 2
        odd  == (a[1] \div unit) % 2 = 1
        up   == rem > half \/ (rem = half /\ (sticky \/ odd))
    IN  Norm(<< a[1] - rem + (IF up THEN unit ELSE 0), a[2], a[3], a[4] >>)

\* rounding of an exact value to a float64; sticky tells that the exact
\* value has non-zero bits below the ones held in x
Round53(x, sticky) ==
    WithValue(x, LAMBDA a :
        IF a = FxZero THEN a
        ELSE WithValue(TopBit(a) - (MantissaBits - 1), LAMBDA d :
                 IF d <= 0 THEN a ELSE RoundBits(a, d, sticky)))

\* float64(s) / float64(n) for small non-negative integers, n > 0
FDiv(s, n) ==
    LET r3 == s % n
        q3 == (r3 * Base) \div n
        r2 == (r3 * Base) % n
        q2 == (r2 * Base) \div n
        r1 == (r2 * Base) % n
        q1 == (r1 * Base) \div n
        r0 == (r1 * Base) % n
    IN  Round53(<< q1, q2, q3, s \div n >>, r0 # 0)

\* a float64 product of an integer channel value and a float64
FMulRounded(c, x) == Round53(FxMul(c, x), FALSE)

\* the three ways a build may evaluate x1*y1 + x2*y2: both products
\* rounded, or one product fused into the addition (Go permits fusing)
FpModes == { "separate", "fmaLeft", "fmaRight" }

\* the weights exchanged: c1*t + c2*(1-t)
MulAddSwapped(mode, c1, u, c2, t) ==
    WithValue(IF mode = "fmaLeft" THEN FxMul(c1, t) ELSE FMulRounded(c1, t), LAMBDA p :
        WithValue(IF mode = "fmaRight" THEN FxMul(c2, u) ELSE FMulRounded(c2, u), LAMBDA q :
            Round53(FxAdd(p, q), FALSE)))

\* float64(c1)*(1-t) + float64(c2)*t
MulAdd(mode, c1, u, c2, t) ==
    WithValue(IF mode = "fmaLeft" THEN FxMul(c1, u) ELSE FMulRounded(c1, u), LAMBDA p :
        WithValue(IF mode = "fmaRight" THEN FxMul(c2, t) ELSE FMulRounded(c2, t), LAMBDA q :
            Round53(FxAdd(p, q), FALSE)))

\* uint8(x) of a finite non-negative float64: the fraction is dropped
TruncU8(x) == x[4] % 256

\* one channel of interpolateColor at t = float64(step)/float64(steps);
\* with steps = 0 the quotient 0/0 is NaN and uint8(NaN) is whatever
\* byte the build yields (nan)
InterpChannel(mode, nan, c1, c2, step, steps) ==
    IF steps = 0 THEN nan
    ELSE WithValue(FDiv(step, steps), LAMBDA t :
             WithValue(Round53(FxSub(FxOne, t), FALSE), LAMBDA u :
                 TruncU8(MulAdd(mode, c1, u, c2, t))))

\* ------------------------------------------------------------------------
\* Colour model: parseColors, interpolateColor, colorToHex
\* ------------------------------------------------------------------------

UpperHex == << "0", "1", "2", "3", "4", "5", "6", "7", "8", "9", "A", "B", "C", "D", "E", "F" >>

LowerHex == << "0", "1", "2", "3", "4", "5", "6", "7", "8", "9", "a", "b", "c", "d", "e", "f" >>

IsHexDigit(ch) == \E v \in 1..16 : ch = UpperHex[v] \/ ch = LowerHex[v]

HexVal(ch) == (CHOOSE v \in 1..16 : ch = UpperHex[v] \/ ch = LowerHex[v]) - 1

\* strings.TrimPrefix(c, "#")
TrimPrefix(c) == IF Len(c) > 0 /\ c[1] = "#" THEN Tail(c) ELSE c

\* the leading blanks Sscanf skips before a number
RECURSIVE SkipSpace(_)
SkipSpace(c) == IF Len(c) > 0 /\ c[1] = " " THEN SkipSpace(Tail(c)) ELSE c

\* the token a number verb reads: the longest run of hexadecimal digits at
\* the front of the input, at most width characters
RECURSIVE scanNumber(_, _)
scanNumber(c, width) ==
    IF width > 0 /\ Len(c) > 0 /\ IsHexDigit(c[1])
    THEN << c[1] >> \o scanNumber(Tail(c), width - 1)
    ELSE << >>

RECURSIVE Zeros(_)
Zeros(n) == IF n <= 0 THEN << >> ELSE << 0 >> \o Zeros(n - 1)

\* fmt.Sscanf(c, "%08X", &val): err tells whether the scan failed, val is
\* the uint32 as its eight hexadecimal digits, most significant first.
\* Input left over after the token is not an error.
Sscanf08X(c) ==
    LET tok == scanNumber(SkipSpace(c), 8)
    IN  IF Len(tok) = 0
        THEN [err |-> TRUE, val |-> Zeros(8)]
        ELSE [err |-> FALSE,
              val |-> Zeros(8 - Len(tok)) \o [k \in 1..Len(tok) |-> HexVal(tok[k])]]

\* the value read as AARRGGBB
ByteOfARGB(val, byte) == val[2 * ((byte % 4) + 1) - 1] * 16 + val[2 * ((byte % 4) + 1)]

\* uint8(val >> shift) for shift = 24, 16, 8, 0 as byte = 1, 2, 3, 4
ByteOf(val, byte) == val[2 * byte - 1] * 16 + val[2 * byte]

\* one round of the loop body of parseColors
parseColor(str) ==
    LET c == TrimPrefix(str)
        scan == Sscanf08X(c)
    IN  IF Len(c) # 8 THEN [err |-> "format"]
        ELSE IF scan.err THEN [err |-> "value"]
        ELSE [err |-> "",
              rgba |-> [R |-> ByteOf(scan.val, 1), G |-> ByteOf(scan.val, 2),
                        B |-> ByteOf(scan.val, 3), A |-> ByteOf(scan.val, 4)]]

RECURSIVE parseColorsFrom(_, _)
parseColorsFrom(colorStrings, colorList) ==
    IF colorStrings = << >> THEN [err |-> "", list |-> colorList]
    ELSE LET p == parseColor(Head(colorStrings))
         IN  IF p.err # "" THEN [err |-> p.err, list |-> << >>]
             ELSE parseColorsFrom(Tail(colorStrings), Append(colorList, p.rgba))

parseColors(colorStrings) == parseColorsFrom(colorStrings, << >>)

\* interpolateColor(c1, c2, t) with t = float64(step)/float64(steps)
interpolateColorOn(mode, nan, c1, c2, step, steps) ==
    [R |-> InterpChannel(mode, nan, c1.R, c2.R, step, steps),
     G |-> InterpChannel(mode, nan, c1.G, c2.G, step, steps),
     B |-> InterpChannel(mode, nan, c1.B, c2.B, step, steps),
     A |-> InterpChannel(mode, nan, c1.A, c2.A, step, steps)]

\* "%02X"
Hex2(byte) == << UpperHex[(byte \div 16) + 1], UpperHex[(byte % 16) + 1] >>

colorToHex(x) ==
    WithValue(x, LAMBDA c :
        << "0", "x" >> \o Hex2(c.A) \o Hex2(c.R) \o Hex2(c.G) \o Hex2(c.B))

\* "glow(" + hex + ")"
GlowWrap(hex) == << "g", "l", "o", "w", "(" >> \o hex \o << ")" >>

RECURSIVE DecimalDigits(_)
DecimalDigits(n) ==
    IF n < 10 THEN << UpperHex[n + 1] >>
    ELSE DecimalDigits(n \div 10) \o << UpperHex[(n % 10) + 1] >>

\* fmt.Sprintf("%f", w) of a width given in halves
FormatWidth(halves) ==
    DecimalDigits(halves \div 2) \o << "." >>
        \o (IF halves % 2 = 1 THEN << "5" >> ELSE << "0" >>)
        \o << "0", "0", "0", "0", "0" >>

\* ------------------------------------------------------------------------
\* Configuration values.  secs, fps and width are counted in halves (6 is
\* 3.0), values for which the float64 product secs*fps is exact.
\* ------------------------------------------------------------------------

Red == << "#", "F", "F", "0", "0", "0", "0", "F", "F" >>

Orange == << "#", "F", "F", "A", "5", "0", "0", "F", "F" >>

Yellow == << "#", "F", "F", "F", "F", "0", "0", "F", "F" >>

Green == << "#", "0", "0", "8", "0", "0", "0", "F", "F" >>

Blue == << "#", "0", "0", "0", "0", "F", "F", "F", "F" >>

Indigo == << "#", "4", "B", "0", "0", "8", "2", "F", "F" >>

\* inputs that are not "#RRGGBBAA": lower case without '#', too short, a
\* non-digit first, non-digits after six digits
OrangeLower == << "f", "f", "a", "5", "0", "0", "f", "f" >>

TooShort == << "#", "F", "F", "0", "0", "F", "F" >>

BadHead == << "#", "G", "G", "0", "0", "0", "0", "F", "F" >>

BadTail == << "#", "F", "F", "0", "0", "0", "0", "G", "G" >>

defaultConfig ==
    [colors |-> << Red, Orange, Yellow, Green, Blue, Indigo >>,
     inactiveColors |-> << >>,
     secs |-> 6, fps |-> 6, width |-> 10,
     glow |-> FALSE, inactiveGlow |-> FALSE]

\* loadConfigFile() when there is no file, or a file that sets nothing
NoFile ==
    [colors |-> << >>, inactiveColors |-> << >>, secs |-> 0, fps |-> 0,
     width |-> 0, glow |-> FALSE, inactiveGlow |-> FALSE]

\* the flag values when no flag is given; a list flag is held as the
\* result of strings.Split(flag, ","), the empty list standing for ""
NoFlags ==
    [colors |-> << >>, inactiveColors |-> << >>, secs |-> 0, fps |-> 0, width |-> 0]

FileConfigs ==
    { [colors |-> c, inactiveColors |-> ic, secs |-> t[1], fps |-> t[2],
       width |-> t[3], glow |-> g[1], inactiveGlow |-> g[2]] :
        c \in { << >>, << Red, Blue >> },
        ic \in { << >>, << Blue, Green >> },
        t \in { << 0, 0, 0 >>, << 2, 4, 7 >> },
        g \in { << FALSE, FALSE >>, << TRUE, FALSE >>, << FALSE, TRUE >> } }

FlagSets ==
    { [colors |-> c, inactiveColors |-> ic, secs |-> t[1], fps |-> t[2], width |-> t[3]] :
        c \in { << >>, << Green >>, << Red, OrangeLower, Blue >>,
                << Red, Yellow, Green, Blue >>, << Red, TooShort >>,
                << BadHead >>, << BadTail, Blue >> },
        ic \in { << >>, << Blue, Red, Green >>, << Blue, BadTail >>,
                 << TooShort, Blue, Red >> },
        t \in { << 0, 0, 0 >>, << 1, 2, 0 >>, << 2, 6, 4 >> } }

\* flags given together with a config file
OverrideFlags ==
    { NoFlags,
      [colors |-> << Green, Blue >>, inactiveColors |-> << Red, Yellow >>,
       secs |-> 3, fps |-> 3, width |-> 1] }

\* the bytes uint8(NaN) yields on the supported targets
NaNBytes == { 0, 255 }

\* number of frames the frame log keeps
MaxFrames == 7

\* largest spare capacity of the slice parseColors returns
MaxSpare == 2

VARIABLES
    fileConfig,          \* result of loadConfigFile
    flags,               \* command-line flag values
    fpMode,              \* how the build evaluates a*b + c*d
    nanByte,             \* what the build makes of uint8(NaN)
    cfg,                 \* resolved configuration
    colors,              \* active track
    inactiveColors,      \* inactive track
    stepsPerTransition,
    i,                   \* trackIndex
    step,                \* subStep
    pc,                  \* position of main
    frame,               \* arguments of the last borders command
    emitted,             \* log of the first MaxFrames commands
    inflight,            \* borders commands started and not yet returned
    lastErr,             \* whether the last returned command failed
    exitMsg              \* error printed before os.Exit(1)

vars == << fileConfig, flags, fpMode, nanByte, cfg, colors, inactiveColors,
           stepsPerTransition, i, step, pc, frame, emitted, inflight, lastErr, exitMsg >>

NoFrame == [trackIndex |-> -1, subStep |-> -1]

Init ==
    /\ fileConfig \in FileConfigs
    /\ flags \in FlagSets
    /\ fileConfig = NoFile \/ flags \in OverrideFlags
    /\ fpMode \in FpModes
    /\ nanByte \in NaNBytes
    /\ cfg = defaultConfig
    /\ colors = << >>
    /\ inactiveColors = << >>
    /\ stepsPerTransition = 0
    /\ i = 0
    /\ step = 0
    /\ pc = "start"
    /\ frame = NoFrame
    /\ emitted = << >>
    /\ inflight = 0
    /\ lastErr = FALSE
    /\ exitMsg = ""

\* ------------------------------------------------------------------------
\* Startup
\* ------------------------------------------------------------------------

\* a file override that copies the width whatever it is
overrideWithFileAnyWidth(c, f) ==
    [colors |-> IF Len(f.colors) > 0 THEN f.colors ELSE c.colors,
     inactiveColors |-> IF Len(f.inactiveColors) > 0 THEN f.inactiveColors ELSE c.inactiveColors,
     secs |-> IF f.secs > 0 THEN f.secs ELSE c.secs,
     fps |-> IF f.fps > 0 THEN f.fps ELSE c.fps,
     width |-> f.width,
     glow |-> IF f.glow THEN f.glow ELSE c.glow,
     inactiveGlow |-> c.inactiveGlow]

\* "Override default config with config file settings"
overrideWithFile(c, f) ==
    [colors |-> IF Len(f.colors) > 0 THEN f.colors ELSE c.colors,
     inactiveColors |-> IF Len(f.inactiveColors) > 0 THEN f.inactiveColors ELSE c.inactiveColors,
     secs |-> IF f.secs > 0 THEN f.secs ELSE c.secs,
     fps |-> IF f.fps > 0 THEN f.fps ELSE c.fps,
     width |-> IF f.width > 0 THEN f.width ELSE c.width,
     glow |-> IF f.glow THEN f.glow ELSE c.glow,
     inactiveGlow |-> c.inactiveGlow]

\* a flag override that takes every number other than the flag default 0
overrideWithFlagsNonZero(c, g) ==
    [colors |-> IF g.colors # << >> THEN g.colors ELSE c.colors,
     inactiveColors |-> IF g.inactiveColors # << >> THEN g.inactiveColors ELSE c.inactiveColors,
     secs |-> IF g.secs # 0 THEN g.secs ELSE c.secs,
     fps |-> IF g.fps # 0 THEN g.fps ELSE c.fps,
     width |-> IF g.width # 0 THEN g.width ELSE c.width,
     glow |-> c.glow,
     inactiveGlow |-> c.inactiveGlow]

\* "Override config with command-line flags"
overrideWithFlags(c, g) ==
    [colors |-> IF g.colors # << >> THEN g.colors ELSE c.colors,
     inactiveColors |-> IF g.inactiveColors # << >> THEN g.inactiveColors ELSE c.inactiveColors,
     secs |-> IF g.secs > 0 THEN g.secs ELSE c.secs,
     fps |-> IF g.fps > 0 THEN g.fps ELSE c.fps,
     width |-> IF g.width > 0 THEN g.width ELSE c.width,
     glow |-> c.glow,
     inactiveGlow |-> c.inactiveGlow]

Resolve ==
    /\ pc = "start"
    /\ cfg' = overrideWithFlags(overrideWithFile(cfg, fileConfig), flags)
    /\ pc' = "parseActive"
    /\ UNCHANGED << fileConfig, flags, fpMode, nanByte, colors, inactiveColors,
                    stepsPerTransition, i, step, frame, emitted, inflight, lastErr, exitMsg >>

ParseActive ==
    /\ pc = "parseActive"
    /\ LET parsed == parseColors(cfg.colors)
       IN  IF parsed.err # ""
           THEN /\ exitMsg' = "Error parsing colors"
                /\ pc' = "exited"
                /\ UNCHANGED colors
           ELSE /\ colors' = parsed.list
                /\ pc' = "parseInactive"
                /\ UNCHANGED exitMsg
    /\ UNCHANGED << fileConfig, flags, fpMode, nanByte, cfg, inactiveColors,
                    stepsPerTransition, i, step, frame, emitted, inflight, lastErr >>

ZeroColor == [R |-> 0, G |-> 0, B |-> 0, A |-> 0]

\* the offset rounded up
RotateOffsetUp(n) == (n + 1) \div 2

\* "offset := len(colors) / 2"
RotateOffset(n) == n \div 2

\* an append that, when the backing array has room, writes colors[offset:]
\* at the front of the array instead of colors[:offset] behind the slice
appendRotatedAtFront(list, spare) ==
    LET n == Len(list)
        offset == RotateOffset(n)
        array == list \o [k \in 1..spare |-> ZeroColor]
        written == IF offset <= spare
                   THEN [k \in 1..(n + spare) |->
                            IF k <= n - offset THEN array[k + offset] ELSE array[k]]
                   ELSE array
        result == IF offset <= spare
                  THEN SubSeq(written, 1, n)
                  ELSE SubSeq(list, offset + 1, n) \o SubSeq(list, 1, offset)
    IN  [active |-> SubSeq(written, 1, n), inactive |-> result]

\* append(colors[offset:], colors[:offset]...) on a slice whose backing
\* array has spare more elements than the slice: the result and what the
\* active slice reads afterwards
appendRotated(list, spare) ==
    LET n == Len(list)
        offset == RotateOffset(n)
        array == list \o [k \in 1..spare |-> ZeroColor]
        written == IF offset <= spare
                   THEN [k \in 1..(n + spare) |->
                            IF n < k /\ k <= n + offset THEN array[k - n] ELSE array[k]]
                   ELSE array
        result == IF offset <= spare
                  THEN SubSeq(written, offset + 1, offset + n)
                  ELSE SubSeq(list, offset + 1, n) \o SubSeq(list, 1, offset)
    IN  [active |-> SubSeq(written, 1, n), inactive |-> result]

ParseInactive ==
    /\ pc = "parseInactive"
    /\ IF Len(cfg.inactiveColors) > 0
       THEN LET parsed == parseColors(cfg.inactiveColors)
            IN  IF parsed.err # ""
                THEN /\ exitMsg' = "Error parsing inactive colors"
                     /\ pc' = "exited"
                     /\ UNCHANGED << colors, inactiveColors >>
                ELSE /\ inactiveColors' = parsed.list
                     /\ pc' = "checkLengths"
                     /\ UNCHANGED << colors, exitMsg >>
       ELSE \E spare \in 0..MaxSpare :
                LET r == appendRotated(colors, spare)
                IN  /\ colors' = r.active
                    /\ inactiveColors' = r.inactive
                    /\ pc' = "checkLengths"
                    /\ UNCHANGED exitMsg
    /\ UNCHANGED << fileConfig, flags, fpMode, nanByte, cfg,
                    stepsPerTransition, i, step, frame, emitted, inflight, lastErr >>

\* a step count that is never below one
StepsOfAtLeastOne(c) == IF c.secs * c.fps < 4 THEN 1 ELSE (c.secs * c.fps) \div 4

\* int(cfg.Active.Secs * cfg.Active.FPS), both factors in halves
StepsOf(c) == (c.secs * c.fps) \div 4

\* a check that rejects only a longer inactive list
LengthsDifferLonger(inactive, active) == Len(inactive) > Len(active)

\* "len(inactiveColors) != len(colors)"
LengthsDiffer(inactive, active) == Len(inactive) # Len(active)

CheckLengths ==
    /\ pc = "checkLengths"
    /\ IF LengthsDiffer(inactiveColors, colors)
       THEN /\ exitMsg' = "Error: The number of inactive colors must match the number of active colors."
            /\ pc' = "exited"
            /\ UNCHANGED stepsPerTransition
       ELSE /\ stepsPerTransition' = StepsOf(cfg)
            /\ pc' = "loop"
            /\ UNCHANGED exitMsg
    /\ UNCHANGED << fileConfig, flags, fpMode, nanByte, cfg, colors, inactiveColors,
                    i, step, frame, emitted, inflight, lastErr >>

\* ------------------------------------------------------------------------
\* The animation loop
\* ------------------------------------------------------------------------

interpolateColor(c1, c2, s, n) == interpolateColorOn(fpMode, nanByte, c1, c2, s, n)

\* the next index without the wrap to the first colour
NextIndexClamped(idx, n) == IF idx + 1 < n THEN idx + 1 ELSE idx

\* "(i+1)%len(colors)"
NextIndex(idx, n) == (idx + 1) % n

\* the colour argument of one track
ColorArg(track, idx, s, glowFlag) ==
    LET current == track[idx + 1]
        next == track[NextIndex(idx, Len(track)) + 1]
        hex == colorToHex(interpolateColor(current, next, s, stepsPerTransition))
    IN  IF glowFlag THEN GlowWrap(hex) ELSE hex

\* the borders command of the loop body at (i, step)
BuildFrame ==
    [trackIndex |-> i,
     subStep |-> step,
     active_color |-> ColorArg(colors, i, step, cfg.glow),
     inactive_color |-> ColorArg(inactiveColors, i, step, cfg.inactiveGlow),
     width |-> FormatWidth(cfg.width)]

\* cmd.Start() in place of cmd.Run(): the loop does not wait
AfterStartNoWait == "sleeping"

\* cmd.Run() starts the command and waits for it to complete
AfterStart == "running"

\* the loop body up to the start of cmd.Run()
Dispatch ==
    /\ pc = "loop"
    /\ frame' = BuildFrame
    /\ emitted' = IF Len(emitted) < MaxFrames THEN Append(emitted, frame') ELSE emitted
    /\ inflight' = inflight + 1
    /\ pc' = AfterStart
    /\ UNCHANGED << fileConfig, flags, fpMode, nanByte, cfg, colors, inactiveColors,
                    stepsPerTransition, i, step, lastErr, exitMsg >>

\* a loop that sends the frame again after a failure
AfterRunRetry(err) == IF err THEN "loop" ELSE "sleeping"

\* a loop that gives up after a failure
AfterRunAbort(err) == IF err THEN "exited" ELSE "sleeping"

\* where the loop goes after cmd.Run() has returned err
AfterRun(err) == "sleeping"

\* cmd.Run() returns; an error is printed and otherwise ignored
SinkReturn(err) ==
    /\ pc = "running"
    /\ inflight' = inflight - 1
    /\ lastErr' = err
    /\ pc' = AfterRun(err)
    /\ UNCHANGED << fileConfig, flags, fpMode, nanByte, cfg, colors, inactiveColors,
                    stepsPerTransition, i, step, frame, emitted, exitMsg >>

\* the borders process never terminates: cmd.Run() blocks for good
SinkHang ==
    /\ pc = "running"
    /\ pc' = "hung"
    /\ UNCHANGED << fileConfig, flags, fpMode, nanByte, cfg, colors, inactiveColors,
                    stepsPerTransition, i, step, frame, emitted, inflight, lastErr, exitMsg >>

\* the inner loop with the condition step < stepsPerTransition
AdvanceExclusive(idx, s, n, steps) ==
    IF s + 1 < steps THEN << idx, s + 1 >>
    ELSE IF idx + 1 < n THEN << idx + 1, 0 >>
    ELSE << 0, 0 >>

\* the loop counters after one more round of the inner loop: step++, and
\* past stepsPerTransition i++ with step := 0, and past the track i := 0
Advance(idx, s, n, steps) ==
    IF s + 1 <= steps THEN << idx, s + 1 >>
    ELSE IF idx + 1 < n THEN << idx + 1, 0 >>
    ELSE << 0, 0 >>

\* time.Sleep(delay) is over; the loops move on to the next frame
Wake ==
    /\ pc = "sleeping"
    /\ LET nxt == Advance(i, step, Len(colors), stepsPerTransition)
       IN  /\ i' = nxt[1]
           /\ step' = nxt[2]
    /\ pc' = "loop"
    /\ UNCHANGED << fileConfig, flags, fpMode, nanByte, cfg, colors, inactiveColors,
                    stepsPerTransition, frame, emitted, inflight, lastErr, exitMsg >>

Next ==
    \/ Resolve
    \/ ParseActive
    \/ ParseInactive
    \/ CheckLengths
    \/ Dispatch
    \/ \E err \in BOOLEAN : SinkReturn(err)
    \/ SinkHang
    \/ Wake

Spec == Init /\ [][Next]_vars

\* the loop under the assumption that every borders command returns
NextLive ==
    \/ Resolve
    \/ ParseActive
    \/ ParseInactive
    \/ CheckLengths
    \/ Dispatch
    \/ \E err \in BOOLEAN : SinkReturn(err)
    \/ Wake

\* longest track and most steps per transition of the runs whose progress
\* is checked
LiveMaxLen == 3

LiveMaxSteps == 3

\* the runs of Init with a short cycle
LiveInit ==
    /\ Init
    /\ LET resolved == overrideWithFlags(overrideWithFile(defaultConfig, fileConfig), flags)
       IN  /\ Len(resolved.colors) <= LiveMaxLen
           /\ StepsOf(resolved) <= LiveMaxSteps

\* main is sequential code that keeps running, the command returns and
\* the sleep ends
LiveSpec ==
    /\ LiveInit
    /\ [][NextLive]_vars
    /\ WF_vars(Dispatch)
    /\ WF_vars(\E err \in BOOLEAN : SinkReturn(err))
    /\ WF_vars(Wake)

\* ------------------------------------------------------------------------
\* Startup on its own: main from the flags up to the entry of the loop
\* ------------------------------------------------------------------------

\* what a config file and the flags can give for secs, fps and width (in
\* halves): a negative number, nothing (0), a positive number
FileNumbers == { << s, f, w >> : s \in { -2, 0, 4 }, f \in { -4, 0, 2 }, w \in { -1, 0, 7 } }

FlagNumbers == { << s, f, w >> : s \in { -1, 0, 3 }, f \in { -1, 0, 1 }, w \in { -3, 0, 1 } }

\* strings.Split(",", ","): two empty strings
CommaOnly == << << >>, << >> >>

StartupInit ==
    /\ \E c \in { << >>, << Red, Blue >> },
          ic \in { << >>, << Blue, Green >>, << Green >> },
          t \in FileNumbers :
           fileConfig = [colors |-> c, inactiveColors |-> ic, secs |-> t[1], fps |-> t[2],
                         width |-> t[3], glow |-> FALSE, inactiveGlow |-> FALSE]
    /\ \E c \in { << >>, << Green, Blue >>, << Yellow >>, CommaOnly },
          ic \in { << >>, << Red, Yellow >> },
          t \in FlagNumbers :
           flags = [colors |-> c, inactiveColors |-> ic, secs |-> t[1], fps |-> t[2],
                    width |-> t[3]]
    /\ fpMode = "separate"
    /\ nanByte = 0
    /\ cfg = defaultConfig
    /\ colors = << >>
    /\ inactiveColors = << >>
    /\ stepsPerTransition = 0
    /\ i = 0
    /\ step = 0
    /\ pc = "start"
    /\ frame = NoFrame
    /\ emitted = << >>
    /\ inflight = 0
    /\ lastErr = FALSE
    /\ exitMsg = ""

StartupNext ==
    \/ Resolve
    \/ ParseActive
    \/ ParseInactive
    \/ CheckLengths

StartupSpec == StartupInit /\ [][StartupNext]_vars

\* ------------------------------------------------------------------------
\* The colour functions on their own
\* ------------------------------------------------------------------------

Grey7 == << "#", "0", "7", "0", "7", "0", "7", "0", "7" >>

MixedCase == << "0", "a", "1", "B", "2", "c", "3", "D" >>

\* colour strings handed to parseColors: eight hexadecimal digits with and
\* without '#', in upper, lower and mixed case, and one that is too short
FnStrings == { Red, Blue, Indigo, OrangeLower, Grey7, MixedCase, TooShort }

\* two colour strings, and a step of a transition of 1..9 steps (9 is the
\* default int(3.0 * 3.0))
FnInit ==
    /\ fileConfig = NoFile
    /\ flags = NoFlags
    /\ fpMode \in FpModes
    /\ nanByte \in NaNBytes
    /\ \E a \in FnStrings, b \in FnStrings :
           cfg = [defaultConfig EXCEPT !.colors = << a, b >>]
    /\ colors = << >>
    /\ inactiveColors = << >>
    /\ stepsPerTransition \in 1..StepsOf(defaultConfig)
    /\ i = 0
    /\ step \in 0..stepsPerTransition
    /\ pc = "fn"
    /\ frame = NoFrame
    /\ emitted = << >>
    /\ inflight = 0
    /\ lastErr = FALSE
    /\ exitMsg = ""

\* colors, err := parseColors(cfg.Active.Colors)
FnParse ==
    /\ pc = "fn"
    /\ LET parsed == parseColors(cfg.colors)
       IN  IF parsed.err # ""
           THEN /\ exitMsg' = "Error parsing colors"
                /\ pc' = "exited"
                /\ UNCHANGED colors
           ELSE /\ colors' = parsed.list
                /\ pc' = "parsed"
                /\ UNCHANGED exitMsg
    /\ UNCHANGED << fileConfig, flags, fpMode, nanByte, cfg, inactiveColors,
                    stepsPerTransition, i, step, frame, emitted, inflight, lastErr >>

\* interpolateColor(colors[0], colors[1], t) at t = step/stepsPerTransition
FnInterpolate ==
    /\ pc = "parsed"
    /\ frame' = [color |-> interpolateColor(colors[1], colors[2], step, stepsPerTransition)]
    /\ pc' = "interpolated"
    /\ UNCHANGED << fileConfig, flags, fpMode, nanByte, cfg, colors, inactiveColors,
                    stepsPerTransition, i, step, emitted, inflight, lastErr, exitMsg >>

\* colorToHex(c) of every parsed colour
FnEncode ==
    /\ pc = "parsed"
    /\ frame' = [hex |-> [k \in 1..Len(colors) |-> colorToHex(colors[k])]]
    /\ pc' = "encoded"
    /\ UNCHANGED << fileConfig, flags, fpMode, nanByte, cfg, colors, inactiveColors,
                    stepsPerTransition, i, step, emitted, inflight, lastErr, exitMsg >>

FnNext ==
    \/ FnParse
    \/ FnInterpolate
    \/ FnEncode

FnSpec == FnInit /\ [][FnNext]_vars

\* ------------------------------------------------------------------------
\* Properties
\* ------------------------------------------------------------------------

LoopPcs == { "loop", "running", "sleeping", "hung" }

\* a step that dispatches a frame
DispatchStep == pc = "loop" /\ pc' # "loop"

\* the position after (trackIndex, subStep) in the order of the claim
SuccessorPos(ti, ss) ==
    IF ss < stepsPerTransition THEN << ti, ss + 1 >>
    ELSE << (ti + 1) % Len(colors), 0 >>

FramePos(f) == << f.trackIndex, f.subStep >>

\* the k-th logged frame is at trackIndex ((k-1) div (steps+1)) mod len and
\* subStep (k-1) mod (steps+1)
LogInOrder ==
    \A k \in 1..Len(emitted) :
        /\ emitted[k].trackIndex = ((k - 1) \div (stepsPerTransition + 1)) % Len(colors)
        /\ emitted[k].subStep = (k - 1) % (stepsPerTransition + 1)

\* the first frame is at (0, 0) and every later frame at the successor of
\* the frame before it
FramesInOrder ==
    DispatchStep =>
        IF frame = NoFrame THEN FramePos(frame') = << 0, 0 >>
        ELSE FramePos(frame') = SuccessorPos(frame.trackIndex, frame.subStep)

\* C1: frames are emitted in the order trackIndex 0,1,...,len-1,0,... and,
\* within a trackIndex, subStep 0,1,...,stepsPerTransition; trackIndex moves
\* on by one (wrapping) only right after the frame with subStep =
\* stepsPerTransition, never backward, never skipping.
C1_FrameOrder == [] LogInOrder /\ [][FramesInOrder]_vars

\* a 2-colour track with stepsPerTransition = 2 has emitted subSteps
\* 0,1,2,0,1,2 (t = 0, 0.5, 1, 0, 0.5, 1) and is back at trackIndex 0
C1_Witness ==
    /\ Len(colors) = 2
    /\ stepsPerTransition = 2
    /\ Len(emitted) >= 7
    /\ [k \in 1..7 |-> FramePos(emitted[k])]
         = << << 0, 0 >>, << 0, 1 >>, << 0, 2 >>, << 1, 0 >>, << 1, 1 >>, << 1, 2 >>, << 0, 0 >> >>

\* the hexadecimal part of a colour argument, without glow( )
HexOfArg(arg) == IF arg[1] = "g" THEN SubSeq(arg, 6, Len(arg) - 1) ELSE arg

\* the colour the claim gives for a track at frame position (ti, ss)
LockstepColor(track, ti, ss) ==
    interpolateColor(track[ti + 1], track[((ti + 1) % Len(track)) + 1], ss, stepsPerTransition)

\* C2: the frame just dispatched at (i, step) carries, on the active and on
\* the inactive track, the interpolation between waypoint i and waypoint
\* (i+1) mod len of that track at t = step/stepsPerTransition: same index
\* and same t for both tracks.
C2_Lockstep ==
    pc = "running" =>
        /\ frame.trackIndex = i
        /\ frame.subStep = step
        /\ HexOfArg(frame.active_color) = colorToHex(LockstepColor(colors, i, step))
        /\ HexOfArg(frame.inactive_color) = colorToHex(LockstepColor(inactiveColors, i, step))

\* a frame inside the transition from the last waypoint back to the first,
\* on two tracks that differ
C2_Witness ==
    /\ pc = "running"
    /\ Len(colors) >= 2
    /\ i = Len(colors) - 1
    /\ 0 < step
    /\ step < stepsPerTransition
    /\ frame.active_color # frame.inactive_color

\* the newest logged frame is the one its number in the log and the tracks
\* determine, whatever the earlier commands returned
LogDetermined ==
    LET k == Len(emitted)
        ti == ((k - 1) \div (stepsPerTransition + 1)) % Len(colors)
        ss == (k - 1) % (stepsPerTransition + 1)
    IN  k > 0 =>
            /\ HexOfArg(emitted[k].active_color) = colorToHex(LockstepColor(colors, ti, ss))
            /\ HexOfArg(emitted[k].inactive_color) = colorToHex(LockstepColor(inactiveColors, ti, ss))

\* C3: a failed borders command changes nothing: on return the loop goes to
\* its sleep with the counters and the log untouched whatever the result,
\* after a failure the loop never leaves the animation, the frame
\* dispatched after a failed one is the next frame, not the same one, and
\* the logged frames do not depend on which commands failed.
C3_FailureIgnored ==
    /\ [](lastErr => pc \in LoopPcs)
    /\ []LogDetermined
    /\ [][(pc = "running" /\ pc' # "running" /\ pc' # "hung") =>
              /\ pc' = "sleeping"
              /\ << i', step', frame', emitted' >> = << i, step, frame, emitted >>]_vars
    /\ [][(DispatchStep /\ lastErr) =>
              FramePos(frame') = SuccessorPos(frame.trackIndex, frame.subStep)]_vars

\* a frame has been dispatched after the command before it failed
C3_Witness ==
    /\ lastErr
    /\ pc = "running"
    /\ Len(emitted) >= 2
    /\ emitted[Len(emitted)] # emitted[Len(emitted) - 1]

\* C4: with every command returning and stepsPerTransition >= 1, from any
\* point of the loop every pair (trackIndex, subStep) of the track is
\* dispatched again later, so each is dispatched infinitely often and the
\* loop never ends.
C4_EveryFrameRecurs ==
    \A a \in 0..(LiveMaxLen - 1), b \in 0..LiveMaxSteps :
        (/\ pc \in { "loop", "running", "sleeping" }
         /\ stepsPerTransition >= 1
         /\ a < Len(colors)
         /\ b <= stepsPerTransition)
            ~> (pc = "running" /\ i = a /\ step = b)

\* the loop is past the log, at the last frame of a cycle, after a failure
C4_Witness ==
    /\ pc = "running"
    /\ stepsPerTransition >= 1
    /\ i = Len(colors) - 1
    /\ step = stepsPerTransition
    /\ Len(emitted) = MaxFrames
    /\ frame # emitted[MaxFrames]
    /\ lastErr

\* C5: at most one borders command is in flight, a frame is dispatched only
\* when none is and the loop is at the top of its body (which it reaches
\* only through the return of the command before and the sleep after it),
\* the log grows by the frame dispatched, and nothing happens any more once
\* a command hangs.
C5_OneAtATime ==
    /\ [](inflight <= 1 /\ (inflight = 1 <=> pc \in { "running", "hung" }))
    /\ [][inflight' > inflight => (inflight = 0 /\ pc = "loop" /\ pc' = "running")]_vars
    /\ [][pc' = "loop" => (pc = "sleeping" \/ (pc = "checkLengths" /\ frame = NoFrame))]_vars
    /\ [][pc' = "sleeping" => (pc = "running" /\ inflight' = 0)]_vars
    /\ [][emitted' # emitted => (DispatchStep /\ emitted' = Append(emitted, frame'))]_vars
    /\ [][pc = "hung" => (pc' = "hung" /\ frame' = frame /\ emitted' = emitted)]_vars

\* a command hangs after earlier frames went through
C5_Witness ==
    /\ pc = "hung"
    /\ inflight = 1
    /\ Len(emitted) >= 3

StartupPcs == { "start", "parseActive", "parseInactive", "checkLengths", "exited" }

NothingEmitted == frame = NoFrame /\ emitted = << >> /\ inflight = 0 /\ pc \in StartupPcs

\* C6: with inactive colours supplied in another number than the active
\* colours the program never enters the loop: no frame is ever emitted.
C6_MismatchRejected ==
    (/\ pc # "start"
     /\ Len(cfg.inactiveColors) > 0
     /\ Len(cfg.inactiveColors) # Len(cfg.colors))
        => NothingEmitted

\* four active and three inactive colours, all well-formed: exit at the
\* length check
C6_Witness ==
    /\ pc = "exited"
    /\ Len(colors) = 4
    /\ Len(inactiveColors) = 3
    /\ exitMsg = "Error: The number of inactive colors must match the number of active colors."

\* a colour string that is not eight hexadecimal digits after one '#'
Malformed(str) ==
    LET c == TrimPrefix(str)
    IN  Len(c) # 8 \/ \E k \in 1..Len(c) : ~IsHexDigit(c[k])

HasMalformed(list) == \E k \in 1..Len(list) : Malformed(list[k])

\* C7: a malformed colour string in the active or the supplied inactive list
\* stops the program at startup: no frame is emitted.
C7_MalformedRejected ==
    (pc # "start" /\ (HasMalformed(cfg.colors) \/ HasMalformed(cfg.inactiveColors)))
        => NothingEmitted

\* C8: with no inactive colours supplied the inactive track has the length
\* of the active track and inactive[k] = active[(k + floor(len/2)) mod len].
C8_Rotation ==
    (pc \in { "checkLengths", "loop", "running", "sleeping", "hung" } /\ cfg.inactiveColors = << >>)
        => /\ Len(inactiveColors) = Len(colors)
           /\ colors = parseColors(cfg.colors).list
           /\ \A k \in 0..(Len(colors) - 1) :
                 inactiveColors[k + 1] = colors[((k + (Len(colors) \div 2)) % Len(colors)) + 1]

\* [c0,c1,c2,c3] gives [c2,c3,c0,c1], four different colours
C8_Witness ==
    /\ pc = "loop"
    /\ cfg.inactiveColors = << >>
    /\ Len(colors) = 4
    /\ Cardinality({ colors[k] : k \in 1..4 }) = 4
    /\ inactiveColors = << colors[3], colors[4], colors[1], colors[2] >>

\* tracks of length 1 and 3 derived as well
C8_OddWitness ==
    /\ pc = "loop"
    /\ cfg.inactiveColors = << >>
    /\ Len(colors) = 3
    /\ inactiveColors = << colors[2], colors[3], colors[1] >>

\* C9: the frame at (i, stepsPerTransition) carries on both tracks the
\* waypoint (i+1) mod len, and the frame logged after it, at
\* ((i+1) mod len, 0), carries the same colours.
C9_EndFrameTwice ==
    /\ pc = "running" /\ step = stepsPerTransition =>
          /\ HexOfArg(frame.active_color) = colorToHex(colors[((i + 1) % Len(colors)) + 1])
          /\ HexOfArg(frame.inactive_color)
               = colorToHex(inactiveColors[((i + 1) % Len(colors)) + 1])
    /\ \A k \in 1..(Len(emitted) - 1) :
          emitted[k].subStep = stepsPerTransition =>
              /\ FramePos(emitted[k + 1]) = << (emitted[k].trackIndex + 1) % Len(colors), 0 >>
              /\ emitted[k + 1].active_color = emitted[k].active_color
              /\ emitted[k + 1].inactive_color = emitted[k].inactive_color

\* truncation of the exact value c1*(1-t) + c2*t at t = s/n
ExactTrunc(c1, c2, s, n) == (c1 * (n - s) + c2 * s) \div n

ExactColor(c1, c2, s, n) ==
    [R |-> ExactTrunc(c1.R, c2.R, s, n), G |-> ExactTrunc(c1.G, c2.G, s, n),
     B |-> ExactTrunc(c1.B, c2.B, s, n), A |-> ExactTrunc(c1.A, c2.A, s, n)]

\* C10: at every frame with t = step/stepsPerTransition each channel of the
\* interpolated colour is c1*(1-t) + c2*t with the fraction dropped.
C10_Truncation ==
    (pc = "running" /\ stepsPerTransition >= 1) =>
        /\ LockstepColor(colors, i, step)
             = ExactColor(colors[i + 1], colors[((i + 1) % Len(colors)) + 1],
                          step, stepsPerTransition)
        /\ LockstepColor(inactiveColors, i, step)
             = ExactColor(inactiveColors[i + 1], inactiveColors[((i + 1) % Len(colors)) + 1],
                          step, stepsPerTransition)

\* C11: interpolating a colour with itself returns that colour at every
\* t = step/stepsPerTransition in [0,1]: no channel comes out one lower.
C11_SameColorIdentity ==
    (pc = "interpolated" /\ colors[1] = colors[2]) => frame.color = colors[1]

\* C12: at t = 0 interpolateColor returns c1 and at t = 1 it returns c2,
\* on all four channels.
C12_Endpoints ==
    pc = "interpolated" =>
        /\ step = 0 => frame.color = colors[1]
        /\ step = stepsPerTransition => frame.color = colors[2]

\* t = 7/7 between two colours that differ on every channel, one product fused
C12_Witness ==
    /\ pc = "interpolated"
    /\ fpMode = "fmaLeft"
    /\ stepsPerTransition = 7
    /\ step = 7
    /\ colors[1] = [R |-> 10, G |-> 27, B |-> 44, A |-> 61]
    /\ colors[2] = [R |-> 7, G |-> 7, B |-> 7, A |-> 7]
    /\ frame.color = colors[2]

\* a hexadecimal digit in upper case
ToUpper(ch) ==
    IF \E k \in 1..16 : LowerHex[k] = ch
    THEN UpperHex[CHOOSE k \in 1..16 : LowerHex[k] = ch]
    ELSE ch

\* "0x" and the digit pairs AA RR GG BB of a string RRGGBBAA, in upper case
ArgbOf(str) ==
    LET c == IF str[1] = "#" THEN Tail(str) ELSE str
    IN  << "0", "x" >> \o [k \in 1..8 |-> ToUpper(c[IF k <= 2 THEN k + 6 ELSE k - 2])]

\* C13: for a string of eight hexadecimal digits RRGGBBAA, with or without
\* '#', in either case, parseColors then colorToHex give "0x" and the
\* same digit pairs in the order AA RR GG BB, in upper case.
C13_ParseEncode ==
    (pc = "encoded" /\ ~HasMalformed(cfg.colors)) =>
        \A k \in 1..Len(cfg.colors) : frame.hex[k] = ArgbOf(cfg.colors[k])

\* "0a1B2c3D" comes out as 0x3D0A1B2C and "#4B0082FF" as 0xFF4B0082
C13_Witness ==
    /\ pc = "encoded"
    /\ cfg.colors = << MixedCase, Indigo >>
    /\ frame.hex = << << "0", "x", "3", "D", "0", "A", "1", "B", "2", "C" >>,
                      << "0", "x", "F", "F", "4", "B", "0", "0", "8", "2" >> >>

\* whether a colour argument is glow(...)
IsGlow(arg) == SubSeq(arg, 1, 5) = << "g", "l", "o", "w", "(" >> /\ arg[Len(arg)] = ")"

\* C14: every frame has active_color wrapped as glow(...) exactly when the
\* configuration (config file section active) sets the active glow flag,
\* and inactive_color wrapped exactly when the configuration (section
\* inactive) sets the inactive glow flag.
C14_GlowAsConfigured ==
    pc = "running" =>
        /\ IsGlow(frame.active_color) <=> fileConfig.glow
        /\ IsGlow(frame.inactive_color) <=> fileConfig.inactiveGlow

\* secs * fps < 1 in the resolved configuration (both factors in halves)
ZeroSteps == pc # "start" /\ cfg.secs * cfg.fps < 4

\* the k-th logged frame of a run without sub-steps
OneFramePerIndex(k) == << (k - 1) % Len(colors), 0 >>

\* C15: with secs * fps < 1 the configuration is not rejected (the step
\* after the length check enters the loop with stepsPerTransition = 0) and
\* the loop does not stop: every frame has subStep 0, each frame is
\* followed by the frame of the next trackIndex (cyclically), and every
\* trackIndex of the track is dispatched again and again.
C15_ZeroStepsRuns ==
    /\ [] ((ZeroSteps /\ pc \in { "loop", "running", "sleeping" }) =>
              /\ stepsPerTransition = 0
              /\ step = 0
              /\ \A k \in 1..Len(emitted) : FramePos(emitted[k]) = OneFramePerIndex(k))
    /\ [][(ZeroSteps /\ pc = "sleeping") => (i' = (i + 1) % Len(colors) /\ step' = 0 /\ pc' = "loop")]_vars
    /\ [][(ZeroSteps /\ pc = "checkLengths" /\ Len(inactiveColors) = Len(colors))
              => (pc' = "loop" /\ stepsPerTransition' = 0)]_vars
    /\ \A a \in 0..(LiveMaxLen - 1) :
          (ZeroSteps /\ pc \in { "loop", "running", "sleeping" } /\ a < Len(colors))
              ~> (pc = "running" /\ i = a /\ step = 0 /\ stepsPerTransition = 0)

\* secs 0.5, fps 1, three colours: frames at trackIndex 0,1,2,0,1,2,0
C15_Witness ==
    /\ ZeroSteps
    /\ cfg.secs = 1 /\ cfg.fps = 2
    /\ pc = "running"
    /\ Len(colors) = 3
    /\ Len(emitted) = 7
    /\ [k \in 1..7 |-> emitted[k].trackIndex] = << 0, 1, 2, 0, 1, 2, 0 >>
    /\ \A k \in 1..7 : emitted[k].subStep = 0

\* C16: when the loop is reached the active track is not empty, the
\* inactive track has its length, and secs > 0 and fps > 0, whatever the
\* config file and the flags give (empty lists, zero or negative numbers).
C16_LoopConfigValid ==
    pc = "loop" =>
        /\ Len(cfg.colors) > 0
        /\ Len(colors) > 0
        /\ Len(inactiveColors) = Len(colors)
        /\ cfg.secs > 0
        /\ cfg.fps > 0

\* negative secs and fps in the flags, negative secs and no fps in the
\* file, no colours anywhere: the loop starts on the defaults
C16_Witness ==
    /\ pc = "loop"
    /\ flags.colors = << >> /\ fileConfig.colors = << >>
    /\ flags.secs < 0 /\ fileConfig.secs < 0
    /\ flags.fps < 0 /\ fileConfig.fps = 0
    /\ cfg.secs = 6 /\ cfg.fps = 6
    /\ Len(colors) = 6 /\ Len(inactiveColors) = 6

\* the value of one setting: the flag when set, else the file, else the default
Precedence(flagSet, flagValue, fileSet, fileValue, default) ==
    IF flagSet THEN flagValue ELSE IF fileSet THEN fileValue ELSE default

\* C18: each of active colours, inactive colours, secs, fps and width is
\* the flag value when the flag is set (non-empty, or > 0), else the file
\* value when it is set (non-empty, or > 0), else the default: six rainbow
\* colours, no inactive colours, secs 3, fps 3, width 5.
C18_Precedence ==
    pc # "start" =>
        /\ cfg.colors = Precedence(flags.colors # << >>, flags.colors,
                                   fileConfig.colors # << >>, fileConfig.colors,
                                   << Red, Orange, Yellow, Green, Blue, Indigo >>)
        /\ cfg.inactiveColors = Precedence(flags.inactiveColors # << >>, flags.inactiveColors,
                                           fileConfig.inactiveColors # << >>,
                                           fileConfig.inactiveColors, << >>)
        /\ cfg.secs = Precedence(flags.secs > 0, flags.secs, fileConfig.secs > 0, fileConfig.secs, 6)
        /\ cfg.fps = Precedence(flags.fps > 0, flags.fps, fileConfig.fps > 0, fileConfig.fps, 6)
        /\ cfg.width = Precedence(flags.width > 0, flags.width,
                                  fileConfig.width > 0, fileConfig.width, 10)

\* colours and width from the flags over the file, secs from the file,
\* fps from the default
C18_Witness ==
    /\ pc = "loop"
    /\ flags.colors # << >> /\ fileConfig.colors # << >> /\ fileConfig.colors # flags.colors
    /\ cfg.colors = flags.colors
    /\ flags.secs <= 0 /\ fileConfig.secs > 0 /\ cfg.secs = fileConfig.secs
    /\ flags.fps <= 0 /\ fileConfig.fps <= 0 /\ cfg.fps = 6
    /\ flags.width > 0 /\ fileConfig.width > 0 /\ fileConfig.width # flags.width
    /\ cfg.width = flags.width

\* C17: from the derivation of the inactive track on, each active[k] is the
\* colour parsed from the k-th configured active string, for every track
\* length and spare capacity (shared storage included), and no step of the
\* loop changes either track.
C17_TracksUntouched ==
    /\ [] (pc \in { "checkLengths", "loop", "running", "sleeping", "hung" } =>
              /\ Len(colors) = Len(cfg.colors)
              /\ \A k \in 1..Len(colors) : colors[k] = parseColor(cfg.colors[k]).rgba)
    /\ [][pc = "parseInactive" => colors' = colors]_vars
    /\ [][(pc \in LoopPcs) => (colors' = colors /\ inactiveColors' = inactiveColors)]_vars

\* three different colours, the inactive track appended in place behind
\* them (room for the one colour before the offset), two frames sent
C17_Witness ==
    /\ pc = "sleeping"
    /\ cfg.inactiveColors = << >>
    /\ Len(colors) = 3
    /\ Cardinality({ colors[k] : k \in 1..3 }) = 3
    /\ \E spare \in RotateOffset(Len(colors))..MaxSpare :
           appendRotated(parseColors(cfg.colors).list, spare)
               = [active |-> colors, inactive |-> inactiveColors]
    /\ Len(emitted) >= 2

====
